---- MODULE Spec2Model ----
(***************************************************************************)
(* Locale routing and translation lookup of the internationalized Next.js  *)
(* template: the i18n middleware's locale negotiation, the [locale]        *)
(* layout, the home page, the not-found page and the locale-aware link.    *)
(*                                                                         *)
(* One request is in flight at a time.  A request passes the middleware,   *)
(* then LocaleLayout and HomePage render as two asynchronous components    *)
(* whose steps between awaits interleave freely.                           *)
(***************************************************************************)
EXTENDS Naturals, Sequences, FiniteSets, TLC

\* An absent signal, an unset value, an omitted prop.
NONE == "none"

\* Longest Accept-Language preference list a request carries.
MaxHeaderLen == 2

\* Longest href, in segments, handed to a link.
MaxPathLen == 2

\* Locale-shaped tags a request can name: "de" is supported by no configuration.
Tags == {"en", "ar", "fr", "de"}

\* Values of a signal that may be absent.
Signals == Tags \cup {NONE}

\* Tags a language header advertises.
HeaderTags == {"en", "ar", "de"}

\* Segments of an href.
PathSegments == {"ar", "en", "about"}

RECURSIVE SeqsUpTo(_, _)
SeqsUpTo(S, n) ==
    IF n = 0 THEN {<<>>}
    ELSE LET shorter == SeqsUpTo(S, n - 1)
         IN  shorter \cup {Append(s, x) : s \in {t \in shorter : Len(t) = n - 1}, x \in S}

\* A language header lists each language once, in order of preference.
Headers ==
    {h \in SeqsUpTo(HeaderTags, MaxHeaderLen) :
        \A i, j \in 1..Len(h) : i # j => h[i] # h[j]}

Paths == SeqsUpTo(PathSegments, MaxPathLen)

Range(s) == {s[i] : i \in 1..Len(s)}

(***************************************************************************)
(* Static configuration: the routing object and the message files.         *)
(***************************************************************************)

\* Mutant: a locale was dropped from the list and left as the default.
RoutingConfigsStaleDefault ==
    {[locales |-> <<"en", "ar">>, defaultLocale |-> "en"],
     [locales |-> <<"en", "ar">>, defaultLocale |-> "fr"],
     [locales |-> <<"en", "ar", "fr">>, defaultLocale |-> "en"]}

\* defineRouting({locales, defaultLocale}): the template's routing, the shared
\* locales package's (default "ar"), and the routing of "Adding a New Locale".
RoutingConfigs ==
    {[locales |-> <<"en", "ar">>, defaultLocale |-> "en"],
     [locales |-> <<"en", "ar">>, defaultLocale |-> "ar"],
     [locales |-> <<"en", "ar", "fr">>, defaultLocale |-> "en"]}

\* The translated string of locale l for the key ns.key.
Text(l, ns, key) == l \o ":" \o ns \o "." \o key

\* Key paths a message file holds, as <<namespace, key>> pairs.
DocShape ==
    {<<"hero", "title">>, <<"hero", "subtitle">>,
     <<"notFound", "title">>, <<"notFound", "goHome">>}

TitleShape == {<<"hero", "title">>}

EmptyShape == {}

Shapes == {DocShape, TitleShape, EmptyShape}

\* The default locale's file is the reference file: it is never empty.
DefaultShapes == {DocShape, TitleShape}

\* A message file: namespace -> key -> string.
MakeBundle(l, shape) ==
    [ns \in {p[1] : p \in shape} |->
        [key \in {p[2] : p \in {q \in shape : q[1] = ns}} |-> Text(l, ns, key)]]

\* messages/<locale>.json for every locale of the routing: the default locale's
\* file has one shape, the other locales' files another.
MessageFiles(r) ==
    {[l \in Range(r.locales) |->
        MakeBundle(l, IF l = r.defaultLocale THEN ds ELSE os)] :
        ds \in DefaultShapes, os \in Shapes}

VARIABLES
    routing,        \* the routing configuration
    messageFiles,   \* locale -> message bundle
    cookieJar,      \* the NEXT_LOCALE cookie the client holds
    phase,          \* "idle", "middleware", "render", "done"
    request,        \* the signals of the request in flight
    params,         \* the [locale] route parameter
    resolvedFrom,   \* the signal the middleware resolved the locale from
    requestLocale,  \* the request-scoped locale store of setRequestLocale
    layoutPc,       \* LocaleLayout: "wait", "params", "messages", "rendered", "notFound"
    pagePc,         \* HomePage: "wait", "params", "translations", "rendered"
    calls,          \* the library calls of this request, in order
    html,           \* what LocaleLayout returned
    main,           \* what HomePage returned
    notFoundView,   \* what NotFoundPage returned
    response,       \* "none", "page", "notFound"
    messages,       \* LocaleLayout's local: what getMessages() returned
    t,              \* HomePage's local: what getTranslations("hero") returned
    link            \* the last link a rendered page generated

vars ==
    <<routing, messageFiles, cookieJar, phase, request, params, resolvedFrom,
      requestLocale, layoutPc, pagePc, calls, html, main, notFoundView,
      response, messages, t, link>>

NoRequest == [url |-> NONE, cookie |-> NONE, header |-> <<>>]

EmptyBundle == MakeBundle(NONE, EmptyShape)

\* What the per-request variables hold before their component has run.
NoHtml == [lang |-> NONE, dir |-> NONE, messages |-> EmptyBundle]

NoMain == [title |-> NONE, subtitle |-> NONE]

NoView == [title |-> NONE, description |-> NONE, goHome |-> NONE, href |-> <<>>]

NoTranslator == [namespace |-> NONE, messages |-> EmptyBundle]

NoLink == [props |-> [href |-> <<>>, locale |-> NONE], active |-> NONE, href |-> <<>>]

Init ==
    /\ routing \in RoutingConfigs
    /\ messageFiles \in MessageFiles(routing)
    /\ cookieJar = NONE
    /\ phase = "idle"
    /\ request = NoRequest
    /\ params = NONE
    /\ resolvedFrom = NONE
    /\ requestLocale = NONE
    /\ layoutPc = "wait"
    /\ pagePc = "wait"
    /\ calls = <<>>
    /\ html = NoHtml
    /\ main = NoMain
    /\ notFoundView = NoView
    /\ response = "none"
    /\ messages = EmptyBundle
    /\ t = NoTranslator
    /\ link = NoLink

\* routing.locales.includes(locale)
includes(locales, locale) == \E i \in 1..Len(locales) : locales[i] = locale

Locales == Range(routing.locales)

(***************************************************************************)
(* Translation resolver.                                                   *)
(***************************************************************************)

\* The message file of a locale; a locale without a file has no messages.
BundleOf(locale) ==
    IF locale \in DOMAIN messageFiles THEN messageFiles[locale] ELSE EmptyBundle

\* bundle has an entry at ns.key
HasKey(bundle, ns, key) == ns \in DOMAIN bundle /\ key \in DOMAIN bundle[ns]

\* Deep merge of two bundles; over's entries win.
Merge(base, over) ==
    [ns \in DOMAIN base \cup DOMAIN over |->
        [key \in (IF ns \in DOMAIN base THEN DOMAIN base[ns] ELSE {})
                 \cup (IF ns \in DOMAIN over THEN DOMAIN over[ns] ELSE {}) |->
            IF HasKey(over, ns, key) THEN over[ns][key] ELSE base[ns][key]]]

\* The messages of a request locale: the locale's own, then the default locale's.
getMessages(locale) == Merge(BundleOf(routing.defaultLocale), BundleOf(locale))

\* The dot-delimited key path.
KeyPath(ns, key) == ns \o "." \o key

\* t(key) of a translator over msgs in namespace ns: a missing message is
\* replaced by its key path.
translate(msgs, ns, key) ==
    IF HasKey(msgs, ns, key) THEN msgs[ns][key] ELSE KeyPath(ns, key)

\* getTranslations(ns) / useTranslations(ns) under a request locale.
getTranslations(locale, ns) == [namespace |-> ns, messages |-> getMessages(locale)]

\* resolve(locale, keyPath)
resolve(locale, ns, key) == translate(getMessages(locale), ns, key)

(***************************************************************************)
(* Locale router: the middleware.                                          *)
(***************************************************************************)

\* Accept-Language negotiation: the first advertised tag the routing supports.
RECURSIVE negotiate(_, _)
negotiate(header, locales) ==
    IF header = <<>> THEN NONE
    ELSE IF includes(locales, Head(header)) THEN Head(header)
    ELSE negotiate(Tail(header), locales)

\* Mutant: the language header is consulted before the cookie.
detectLocaleHeaderFirst(req, r) ==
    IF req.url # NONE
    THEN [locale |-> req.url, from |-> "url"]
    ELSE IF negotiate(req.header, r.locales) # NONE
    THEN [locale |-> negotiate(req.header, r.locales), from |-> "header"]
    ELSE IF req.cookie # NONE /\ includes(r.locales, req.cookie)
    THEN [locale |-> req.cookie, from |-> "cookie"]
    ELSE [locale |-> r.defaultLocale, from |-> "default"]

\* Locale detection priority: URL path, NEXT_LOCALE cookie, Accept-Language
\* header, default locale.
detectLocale(req, r) ==
    IF req.url # NONE
    THEN [locale |-> req.url, from |-> "url"]
    ELSE IF req.cookie # NONE /\ includes(r.locales, req.cookie)
    THEN [locale |-> req.cookie, from |-> "cookie"]
    ELSE IF negotiate(req.header, r.locales) # NONE
    THEN [locale |-> negotiate(req.header, r.locales), from |-> "header"]
    ELSE [locale |-> r.defaultLocale, from |-> "default"]

\* Mutant: the detected locale is never persisted.
i18nMiddlewareNoCookie(req, r) ==
    LET d == detectLocale(req, r)
    IN  [locale |-> d.locale, from |-> d.from, setCookie |-> NONE]

\* i18nMiddleware(request): the detected locale becomes the route's locale; a
\* locale detected from a non-URL signal is persisted in the NEXT_LOCALE cookie.
i18nMiddleware(req, r) ==
    LET d == detectLocale(req, r)
    IN  [locale |-> d.locale, from |-> d.from,
         setCookie |-> IF d.from = "url" THEN NONE ELSE d.locale]

\* export function middleware(request) { return i18nMiddleware(request); }
middleware(req, r) == i18nMiddleware(req, r)

(***************************************************************************)
(* Locale-aware link.                                                      *)
(***************************************************************************)

\* The locale a component renders under: the request locale when the routing
\* supports it, the default locale otherwise.
useLocale ==
    IF includes(routing.locales, requestLocale) THEN requestLocale
    ELSE routing.defaultLocale

\* Link of @/i18n/navigation: the href under the target locale's segment.
Link(props, active) ==
    LET target == IF props.locale # NONE THEN props.locale ELSE active
    IN  IF Len(props.href) > 0 /\ props.href[1] = target
        THEN props.href
        ELSE <<target>> \o props.href

\* Mutant: the wrapper prefixes the href itself before handing it to Link.
LocalizedLinkPrefixed(props, active) ==
    LET target == IF props.locale # NONE THEN props.locale ELSE active
    IN  Link([props EXCEPT !.href = <<target>> \o @], active)

\* Mutant: the wrapper forwards the href and drops the locale prop.
LocalizedLinkDropsLocale(props, active) ==
    Link([href |-> props.href, locale |-> NONE], active)

\* return <Link {...props} />
LocalizedLink(props, active) == Link(props, active)

(***************************************************************************)
(* Requests.                                                               *)
(***************************************************************************)

Call(by, fn, arg) == [by |-> by, fn |-> fn, arg |-> arg]

\* A client sends a request: the URL's locale segment (or none), the cookie it
\* holds, and its language header.
NewRequest(url, header) ==
    /\ phase \in {"idle", "done"}
    /\ phase' = "middleware"
    /\ request' = [url |-> url, cookie |-> cookieJar, header |-> header]
    /\ params' = NONE
    /\ resolvedFrom' = NONE
    /\ requestLocale' = NONE
    /\ layoutPc' = "wait"
    /\ pagePc' = "wait"
    /\ calls' = <<>>
    /\ html' = NoHtml
    /\ main' = NoMain
    /\ notFoundView' = NoView
    /\ response' = "none"
    /\ messages' = EmptyBundle
    /\ t' = NoTranslator
    /\ link' = NoLink
    /\ UNCHANGED <<routing, messageFiles, cookieJar>>

\* The client clears or rewrites its cookie between requests.
ClientEditsCookie(value) ==
    /\ phase \in {"idle", "done"}
    /\ value # cookieJar
    /\ cookieJar' = value
    /\ UNCHANGED <<routing, messageFiles, phase, request, params, resolvedFrom,
                   requestLocale, layoutPc, pagePc, calls, html, main,
                   notFoundView, response, messages, t, link>>

\* The middleware runs on the request and the [locale] route starts rendering:
\* LocaleLayout and HomePage both await their params.
Middleware ==
    /\ phase = "middleware"
    /\ LET res == middleware(request, routing)
       IN  /\ params' = res.locale
           /\ resolvedFrom' = res.from
           /\ cookieJar' = IF res.setCookie # NONE THEN res.setCookie ELSE cookieJar
    /\ phase' = "render"
    /\ layoutPc' = "params"
    /\ pagePc' = "params"
    /\ UNCHANGED <<routing, messageFiles, request, requestLocale, calls, html,
                   main, notFoundView, response, messages, t, link>>

(***************************************************************************)
(* LocaleLayout.                                                           *)
(***************************************************************************)

\* Mutant: the membership check accepts every locale.
isValidLocaleUnchecked(locale) == TRUE

\* Mutant: the check accepts every well-formed language tag.
isValidLocaleAnyTag(locale) == locale \in Tags

\* routing.locales.includes(locale as Locale)
isValidLocale(locale) == includes(routing.locales, locale)

\* Mutant: the direction is decided by "is not English".
dirNotEnglish(locale) == IF locale = "en" THEN "ltr" ELSE "rtl"

\* const dir = locale === "ar" ? "rtl" : "ltr"
dir(locale) == IF locale = "ar" THEN "rtl" ELSE "ltr"

\* <html lang={locale} dir={dir}> ... <NextIntlClientProvider messages={messages}>
layoutHtml(locale, msgs) == [lang |-> locale, dir |-> dir(locale), messages |-> msgs]

\* Mutant: an unsupported locale is silently replaced by the default locale.
LocaleLayoutValidateSilentDefault ==
    /\ phase = "render"
    /\ layoutPc = "params"
    /\ LET locale == IF isValidLocale(params) THEN params ELSE routing.defaultLocale
       IN  /\ requestLocale' = locale
           /\ messages' = getMessages(locale)
           /\ calls' = calls \o <<Call("LocaleLayout", "setRequestLocale", locale),
                                  Call("LocaleLayout", "getMessages", NONE)>>
           /\ layoutPc' = "messages"
    /\ UNCHANGED <<routing, messageFiles, cookieJar, phase, request, params,
                   resolvedFrom, pagePc, html, main, notFoundView, response, t, link>>

\* Mutant: notFound() is called and the layout goes on all the same.
LocaleLayoutValidateFallsThrough ==
    /\ phase = "render"
    /\ layoutPc = "params"
    /\ requestLocale' = params
    /\ messages' = getMessages(params)
    /\ calls' = calls
                 \o (IF isValidLocale(params) THEN <<>>
                     ELSE <<Call("LocaleLayout", "notFound", NONE)>>)
                 \o <<Call("LocaleLayout", "setRequestLocale", params),
                      Call("LocaleLayout", "getMessages", NONE)>>
    /\ layoutPc' = IF isValidLocale(params) THEN "messages" ELSE "notFound"
    /\ UNCHANGED <<routing, messageFiles, cookieJar, phase, request, params,
                   resolvedFrom, pagePc, html, main, notFoundView, response, t, link>>

\* After `await params`: the membership check, then notFound() or
\* setRequestLocale(locale) and the call of getMessages().
LocaleLayoutValidate ==
    /\ phase = "render"
    /\ layoutPc = "params"
    /\ IF ~isValidLocale(params)
       THEN /\ calls' = Append(calls, Call("LocaleLayout", "notFound", NONE))
            /\ layoutPc' = "notFound"
            /\ UNCHANGED <<requestLocale, messages>>
       ELSE /\ requestLocale' = params
            /\ messages' = getMessages(params)
            /\ calls' = calls \o <<Call("LocaleLayout", "setRequestLocale", params),
                                   Call("LocaleLayout", "getMessages", NONE)>>
            /\ layoutPc' = "messages"
    /\ UNCHANGED <<routing, messageFiles, cookieJar, phase, request, params,
                   resolvedFrom, pagePc, html, main, notFoundView, response, t, link>>

\* Mutant: the merged messages are written back into the default locale's bundle.
LocaleLayoutRenderMergesInPlace ==
    /\ phase = "render"
    /\ layoutPc = "messages"
    /\ html' = layoutHtml(params, messages)
    /\ messageFiles' = [messageFiles EXCEPT ![routing.defaultLocale] = messages]
    /\ calls' = Append(calls, Call("LocaleLayout", "render", params))
    /\ layoutPc' = "rendered"
    /\ UNCHANGED <<routing, cookieJar, phase, request, params,
                   resolvedFrom, requestLocale, pagePc, main, notFoundView,
                   response, messages, t, link>>

\* After `await getMessages()`: the html tree is returned.
LocaleLayoutRender ==
    /\ phase = "render"
    /\ layoutPc = "messages"
    /\ html' = layoutHtml(params, messages)
    /\ calls' = Append(calls, Call("LocaleLayout", "render", params))
    /\ layoutPc' = "rendered"
    /\ UNCHANGED <<routing, messageFiles, cookieJar, phase, request, params,
                   resolvedFrom, requestLocale, pagePc, main, notFoundView,
                   response, messages, t, link>>

(***************************************************************************)
(* HomePage.                                                               *)
(***************************************************************************)

\* <h1>{t("title")}</h1> <p>{t("subtitle")}</p>
homeMain(tr) ==
    [title |-> translate(tr.messages, tr.namespace, "title"),
     subtitle |-> translate(tr.messages, tr.namespace, "subtitle")]

\* Mutant: the page ignores its locale parameter and renders under the default.
HomePageSetLocaleIgnoresParams ==
    /\ phase = "render"
    /\ pagePc = "params"
    /\ requestLocale' = params
    /\ t' = getTranslations(routing.defaultLocale, "hero")
    /\ calls' = calls \o <<Call("HomePage", "setRequestLocale", params),
                           Call("HomePage", "getTranslations", "hero")>>
    /\ pagePc' = "translations"
    /\ UNCHANGED <<routing, messageFiles, cookieJar, phase, request, params,
                   resolvedFrom, layoutPc, html, main, notFoundView, response,
                   messages, link>>

\* After `await params`: setRequestLocale(locale) and the call of
\* getTranslations("hero").
HomePageSetLocale ==
    /\ phase = "render"
    /\ pagePc = "params"
    /\ requestLocale' = params
    /\ t' = getTranslations(params, "hero")
    /\ calls' = calls \o <<Call("HomePage", "setRequestLocale", params),
                           Call("HomePage", "getTranslations", "hero")>>
    /\ pagePc' = "translations"
    /\ UNCHANGED <<routing, messageFiles, cookieJar, phase, request, params,
                   resolvedFrom, layoutPc, html, main, notFoundView, response,
                   messages, link>>

\* After `await getTranslations("hero")`: the main element is returned.
HomePageRender ==
    /\ phase = "render"
    /\ pagePc = "translations"
    /\ main' = homeMain(t)
    /\ calls' = Append(calls, Call("HomePage", "render", NONE))
    /\ pagePc' = "rendered"
    /\ UNCHANGED <<routing, messageFiles, cookieJar, phase, request, params,
                   resolvedFrom, requestLocale, layoutPc, html, notFoundView,
                   response, messages, t, link>>

(***************************************************************************)
(* NotFoundPage and the response.                                          *)
(***************************************************************************)

\* Mutant: useTranslations() without the namespace: a missing message shows its
\* bare key.
notFoundPageNoNamespace(active) ==
    LET tr == getTranslations(active, "notFound")
        bare(key) == IF HasKey(tr.messages, "notFound", key)
                     THEN tr.messages["notFound"][key] ELSE key
    IN  [title |-> bare("title"),
         description |-> bare("description"),
         goHome |-> bare("goHome"),
         href |-> Link([href |-> <<>>, locale |-> NONE], active)]

\* h1 t("title"), p t("description"), <Link href="/">t("goHome")</Link>
notFoundPage(active) ==
    LET tr == getTranslations(active, "notFound")
    IN  [title |-> translate(tr.messages, tr.namespace, "title"),
         description |-> translate(tr.messages, tr.namespace, "description"),
         goHome |-> translate(tr.messages, tr.namespace, "goHome"),
         href |-> Link([href |-> <<>>, locale |-> NONE], active)]

\* notFound() was called: the not-found page is rendered in its place.
NotFoundPage ==
    /\ phase = "render"
    /\ layoutPc = "notFound"
    /\ notFoundView = NoView
    /\ notFoundView' = notFoundPage(useLocale)
    /\ calls' = Append(calls, Call("NotFoundPage", "render", NONE))
    /\ UNCHANGED <<routing, messageFiles, cookieJar, phase, request, params,
                   resolvedFrom, requestLocale, layoutPc, pagePc, html, main,
                   response, messages, t, link>>

\* What a sent response leaves behind: the request-scoped state is dropped, the
\* client keeps the response and the locale it was rendered under.
EndOfRequest ==
    /\ phase' = "done"
    /\ request' = NoRequest
    /\ params' = NONE
    /\ resolvedFrom' = NONE
    /\ layoutPc' = "wait"
    /\ pagePc' = "wait"
    /\ calls' = <<>>
    /\ messages' = EmptyBundle
    /\ t' = NoTranslator
    /\ UNCHANGED <<routing, messageFiles, cookieJar, requestLocale, html, main,
                   notFoundView, link>>

\* Layout and page have both rendered: the page is sent.
RespondPage ==
    /\ phase = "render"
    /\ layoutPc = "rendered"
    /\ pagePc = "rendered"
    /\ response' = "page"
    /\ EndOfRequest

\* The not-found page has rendered: the 404 is sent, whatever HomePage reached.
RespondNotFound ==
    /\ phase = "render"
    /\ layoutPc = "notFound"
    /\ notFoundView # NoView
    /\ response' = "notFound"
    /\ EndOfRequest

\* A component of the sent page renders a locale-aware link.
RenderLink(href, locale) ==
    /\ phase = "done"
    /\ response = "page"
    /\ link' = [props |-> [href |-> href, locale |-> locale],
                active |-> useLocale,
                href |-> LocalizedLink([href |-> href, locale |-> locale], useLocale)]
    /\ UNCHANGED <<routing, messageFiles, cookieJar, phase, request, params,
                   resolvedFrom, requestLocale, layoutPc, pagePc, calls, html,
                   main, notFoundView, response, messages, t>>

(***************************************************************************)
(* Static generation.                                                      *)
(***************************************************************************)

\* Mutant: the parameters are a hard-coded list instead of routing.locales.
generateStaticParamsHardCoded ==
    <<[locale |-> "en"], [locale |-> "ar"], [locale |-> "fr"]>>

\* routing.locales.map((locale) => ({ locale }))
generateStaticParams ==
    [i \in 1..Len(routing.locales) |-> [locale |-> routing.locales[i]]]

\* The build renders the [locale] route for one generated parameter: the path
\* is /<locale>, there is no client, and no middleware runs.
StaticRender(i) ==
    /\ phase \in {"idle", "done"}
    /\ i \in 1..Len(generateStaticParams)
    /\ phase' = "render"
    /\ request' = [url |-> generateStaticParams[i].locale, cookie |-> NONE,
                   header |-> <<>>]
    /\ params' = generateStaticParams[i].locale
    /\ resolvedFrom' = "static"
    /\ requestLocale' = NONE
    /\ layoutPc' = "params"
    /\ pagePc' = "params"
    /\ calls' = <<>>
    /\ html' = NoHtml
    /\ main' = NoMain
    /\ notFoundView' = NoView
    /\ response' = "none"
    /\ messages' = EmptyBundle
    /\ t' = NoTranslator
    /\ link' = NoLink
    /\ UNCHANGED <<routing, messageFiles, cookieJar>>

Next ==
    \/ \E url \in Signals, header \in Headers : NewRequest(url, header)
    \/ \E value \in Signals : ClientEditsCookie(value)
    \/ Middleware
    \/ LocaleLayoutValidate
    \/ LocaleLayoutRender
    \/ HomePageSetLocale
    \/ HomePageRender
    \/ NotFoundPage
    \/ RespondPage
    \/ RespondNotFound
    \/ \E href \in Paths, locale \in Locales \cup {NONE} : RenderLink(href, locale)
    \/ \E i \in 1..Cardinality(Tags) : StaticRender(i)

Spec == Init /\ [][Next]_vars

(***************************************************************************)
(* Properties.                                                             *)
(***************************************************************************)

\* The router (middleware, then LocaleLayout's membership check) has produced
\* its outcome for the request in flight.
RouterDone == phase = "render" /\ layoutPc \in {"messages", "rendered", "notFound"}

\* The router's outcome is the active locale l.
RouterYields(l) ==
    /\ layoutPc \in {"messages", "rendered"}
    /\ requestLocale = l
    /\ l \in Locales

RouterNotFound == layoutPc = "notFound" /\ html = NoHtml

\* The best match of a language header: its first tag that is a supported locale.
IsBestMatch(header, l) ==
    \E i \in 1..Len(header) :
        /\ header[i] = l
        /\ l \in Locales
        /\ \A j \in 1..(i - 1) : header[j] \notin Locales

HasMatch(header) == \E i \in 1..Len(header) : header[i] \in Locales

\* C1 as stated: every combination of signals yields an active locale, the
\* highest-precedence signal that is present: the URL segment, else the cookie,
\* else the header's first tag with a match, else the default.
C1_AnyPresentSignalWins ==
    RouterDone =>
        IF request.url # NONE THEN RouterYields(request.url)
        ELSE IF request.cookie # NONE THEN RouterYields(request.cookie)
        ELSE IF HasMatch(request.header)
             THEN \E l \in Locales : IsBestMatch(request.header, l) /\ RouterYields(l)
        ELSE RouterYields(routing.defaultLocale)

\* C1, amended: a supported URL segment is the active locale and an unsupported
\* one gives not-found; without a URL segment the active locale is the cookie's
\* when it names a supported locale, else the header's best match against the
\* supported set when there is one, else the default locale.  A cookie or header
\* preference naming no supported locale counts as absent.
C1_Precedence ==
    RouterDone =>
        IF request.url # NONE
        THEN IF request.url \in Locales
             THEN RouterYields(request.url)
             ELSE RouterNotFound
        ELSE IF request.cookie \in Locales THEN RouterYields(request.cookie)
        ELSE IF HasMatch(request.header)
             THEN \E l \in Locales : IsBestMatch(request.header, l) /\ RouterYields(l)
        ELSE RouterYields(routing.defaultLocale)

\* C1 witness: a request without URL segment whose cookie names no supported
\* locale is resolved by its header's second tag.
C1_Witness ==
    /\ RouterDone
    /\ request.url = NONE
    /\ request.cookie = "de"
    /\ request.header = <<"de", "ar">>
    /\ RouterYields("ar")
    /\ routing.defaultLocale = "en"

\* C2: a request whose URL locale segment is not a supported locale ends in
\* not-found whatever its cookie and header are and whatever the default is:
\* LocaleLayout sets no request locale, renders no html, and the response sent is
\* the 404.
C2_UnsupportedIsNotFound ==
    /\ [](RouterDone /\ request.url # NONE /\ request.url \notin Locales
            => /\ RouterNotFound
               /\ \A i \in 1..Len(calls) :
                    calls[i].by = "LocaleLayout" => calls[i].fn = "notFound")
    /\ [][phase = "render" /\ request.url # NONE /\ request.url \notin Locales
            /\ phase' = "done"
            => response' = "notFound" /\ html' = NoHtml]_vars

\* C2 witness: /fr of a routing without "fr", sent with a supported cookie and a
\* supported header preference, has reached not-found.
C2_Witness ==
    /\ request.url = "fr"
    /\ "fr" \notin Locales
    /\ request.cookie = "ar"
    /\ request.header = <<"en">>
    /\ layoutPc = "notFound"
    /\ notFoundView # NoView

\* Calls LocaleLayout has made in this request.
LayoutCalls == SelectSeq(calls, LAMBDA c : c.by = "LocaleLayout")

C4_CookieBeatsHeader ==
    phase = "render" /\ request.url = NONE /\ request.cookie \in Locales
        => /\ params = request.cookie
           /\ resolvedFrom = "cookie"
           /\ RouterDone => RouterYields(request.cookie)
           /\ \A h \in Headers :
                middleware([request EXCEPT !.header = h], routing).locale
                    = request.cookie

\* C4 witness: cookie "ar", header preferring "en", no URL segment: "ar" is active.
C4_Witness ==
    /\ RouterDone
    /\ request.url = NONE
    /\ request.cookie = "ar"
    /\ request.header = <<"en">>
    /\ RouterYields("ar")

\* Key paths a component may ask for, with the key path written out.
KeyUniverse ==
    {[ns |-> "hero", key |-> "title", path |-> "hero.title"],
     [ns |-> "hero", key |-> "subtitle", path |-> "hero.subtitle"],
     [ns |-> "notFound", key |-> "title", path |-> "notFound.title"],
     [ns |-> "notFound", key |-> "description", path |-> "notFound.description"],
     [ns |-> "notFound", key |-> "goHome", path |-> "notFound.goHome"],
     [ns |-> "nav", key |-> "contact", path |-> "nav.contact"]}

InFile(l, k) ==
    /\ l \in DOMAIN messageFiles
    /\ k.ns \in DOMAIN messageFiles[l]
    /\ k.key \in DOMAIN messageFiles[l][k.ns]

\* What the resolution order prescribes for a key path of the default bundle.
OwnOrDefault(l, k) ==
    IF InFile(l, k) THEN messageFiles[l][k.ns][k.key]
    ELSE messageFiles[routing.defaultLocale][k.ns][k.key]

\* C5: for every supported locale L and every key path of the default locale's
\* bundle, resolve gives L's own translation when L's bundle has the key and the
\* default locale's translation otherwise; the home page of a supported locale
\* shows exactly these strings for hero.title and hero.subtitle.
C5_OwnThenDefault ==
    /\ \A l \in Locales : \A k \in KeyUniverse :
        InFile(routing.defaultLocale, k) => resolve(l, k.ns, k.key) = OwnOrDefault(l, k)
    /\ pagePc = "rendered" /\ params \in Locales
        => \A k \in KeyUniverse :
            k.ns = "hero" /\ InFile(routing.defaultLocale, k)
                => (IF k.key = "title" THEN main.title ELSE main.subtitle)
                        = OwnOrDefault(params, k)

\* C5 witness: the Arabic home page over an empty ar bundle shows the English
\* hero.title, and an Arabic page over its own bundle shows its own.
C5_Witness ==
    /\ pagePc = "rendered"
    /\ params = "ar"
    /\ routing.defaultLocale = "en"
    /\ ~InFile("ar", [ns |-> "hero", key |-> "title"])
    /\ main.title = "en:hero.title"

\* C6: a key path that neither the locale's bundle nor the default locale's
\* bundle holds resolves to the key path itself, for every locale; the not-found
\* page shows such a key (notFound.description) as its key path.
C6_RawKeyPath ==
    /\ \A l \in Tags : \A k \in KeyUniverse :
        ~InFile(l, k) /\ ~InFile(routing.defaultLocale, k)
            => resolve(l, k.ns, k.key) = k.path
    /\ notFoundView # NoView
        => \A k \in KeyUniverse :
            k.ns = "notFound" /\ ~InFile(useLocale, k) /\ ~InFile(routing.defaultLocale, k)
                => (CASE k.key = "title" -> notFoundView.title
                      [] k.key = "description" -> notFoundView.description
                      [] OTHER -> notFoundView.goHome) = k.path

\* C6 witness: the not-found page has rendered notFound.description, which no
\* bundle holds, as "notFound.description", beside a translated title.
C6_Witness ==
    /\ notFoundView # NoView
    /\ notFoundView.description = "notFound.description"
    /\ notFoundView.title = "en:notFound.title"

\* The locale a generated link was meant for.
LinkTarget == IF link.props.locale # NONE THEN link.props.locale ELSE requestLocale

\* C7: generating the link again from a generated link gives the same path, and
\* an href that already leads with the target locale is returned as it is, with
\* a single prefix.
C7_LinkIdempotent ==
    link # NoLink
        => /\ LocalizedLink([href |-> link.href, locale |-> link.props.locale],
                            requestLocale) = link.href
           /\ Len(link.props.href) > 0 /\ link.props.href[1] = LinkTarget
                => link.href = link.props.href

\* C7 witness: a link for "ar" from /ar/about on an English page is /ar/about.
C7_Witness ==
    /\ link # NoLink
    /\ requestLocale = "en"
    /\ link.props = [href |-> <<"ar", "about">>, locale |-> "ar"]
    /\ link.href = <<"ar", "about">>

\* C8: a generated link leads with the explicit target locale when one is given
\* and with the active locale otherwise, followed by the href's own segments;
\* generating a link changes nothing but the link.
C8_LinkTargetsLocale ==
    /\ [](link # NoLink
            => /\ link.href # <<>>
               /\ link.href[1] = LinkTarget
               /\ link.href \in {link.props.href, <<LinkTarget>> \o link.props.href})
    /\ [][link' # link /\ link' # NoLink
            => UNCHANGED <<routing, messageFiles, cookieJar, phase, request,
                           params, resolvedFrom, requestLocale, layoutPc, pagePc,
                           calls, html, main, notFoundView, response, messages, t>>]_vars

\* C8 witness: on an Arabic page, /about without a locale becomes /ar/about.
C8_Witness ==
    /\ link # NoLink
    /\ requestLocale = "ar"
    /\ html.lang = "ar"
    /\ link.props = [href |-> <<"about">>, locale |-> NONE]
    /\ link.href = <<"ar", "about">>

\* C9: the html tree LocaleLayout returns has lang equal to the route's locale,
\* a supported one (the URL segment when the request had one), and dir "rtl"
\* exactly when that locale is "ar", "ltr" otherwise.
C9_LangAndDir ==
    /\ html # NoHtml
        => /\ html.lang \in Locales
           /\ html.dir \in {"rtl", "ltr"}
           /\ html.dir = "rtl" <=> html.lang = "ar"
    /\ layoutPc = "rendered"
        => /\ html # NoHtml
           /\ html.lang = params
           /\ request.url # NONE => html.lang = request.url

\* C9 witness: /fr of the three-locale routing rendered lang="fr" dir="ltr".
C9_Witness ==
    /\ layoutPc = "rendered"
    /\ request.url = "fr"
    /\ html.lang = "fr"
    /\ html.dir = "ltr"

\* C10: when the middleware resolves the locale from the cookie, the header or
\* the default, the client's cookie holds that locale afterwards, and a request
\* with that cookie and no URL segment is resolved to the same locale from the
\* cookie, whatever its header.
C10_PreferencePersisted ==
    phase = "render" /\ resolvedFrom \in {"cookie", "header", "default"}
        => /\ cookieJar = params
           /\ params \in Locales
           /\ \A h \in Headers :
                LET res == middleware([url |-> NONE, cookie |-> cookieJar,
                                       header |-> h], routing)
                IN  res.locale = params /\ res.from = "cookie"

\* C10 witness: a first request without cookie, resolved from its header, has
\* left the cookie "ar" behind.
C10_Witness ==
    /\ phase = "render"
    /\ resolvedFrom = "header"
    /\ request.cookie = NONE
    /\ params = "ar"
    /\ cookieJar = "ar"
    /\ routing.defaultLocale = "en"

\* C11: the default locale is a member of the supported set, and exactly one
\* entry of the supported list is the default locale.
C11_OneDefault ==
    /\ routing.defaultLocale \in Locales
    /\ Cardinality({i \in 1..Len(routing.locales) :
                        routing.locales[i] = routing.defaultLocale}) = 1
    /\ Cardinality({l \in Locales : l = routing.defaultLocale}) = 1

\* C11 witness: under the routing whose default is "ar", an English page has
\* been served.
C11_Witness ==
    /\ phase = "done"
    /\ response = "page"
    /\ routing.defaultLocale = "ar"
    /\ html.lang = "en"

C14_ActiveLocaleSupported ==
    /\ phase = "render" /\ layoutPc \in {"messages", "rendered"}
        => /\ params \in Locales
           /\ requestLocale \in Locales
           /\ layoutPc = "rendered" => html.lang \in Locales
    /\ RouterDone /\ request.url = NONE /\ request.cookie \notin Locales
        => /\ layoutPc # "notFound"
           /\ resolvedFrom \in {"header", "default"}
           /\ resolvedFrom = "header" <=> HasMatch(request.header)
           /\ resolvedFrom = "header" => IsBestMatch(request.header, params)
           /\ resolvedFrom = "default" => params = routing.defaultLocale

\* C14 witness: cookie "de" and a header naming only "de": the default locale
\* is active.
C14_Witness ==
    /\ RouterDone
    /\ request = [url |-> NONE, cookie |-> "de", header |-> <<"de">>]
    /\ resolvedFrom = "default"
    /\ RouterYields(routing.defaultLocale)

\* C15: generateStaticParams holds exactly one {locale} entry for every
\* supported locale and no other entry, and a statically generated render never
\* ends in notFound().
C15_StaticParamsSupported ==
    /\ \A l \in Locales :
        Cardinality({i \in 1..Len(generateStaticParams) :
                        generateStaticParams[i] = [locale |-> l]}) = 1
    /\ \A i \in 1..Len(generateStaticParams) :
        generateStaticParams[i].locale \in Locales
    /\ resolvedFrom = "static"
        => /\ params \in Locales
           /\ layoutPc # "notFound"
           /\ notFoundView = NoView
           /\ \A i \in 1..Len(calls) : calls[i].fn # "notFound"

\* C15 witness: the statically generated /ar has rendered its layout.
C15_Witness ==
    /\ resolvedFrom = "static"
    /\ params = "ar"
    /\ layoutPc = "rendered"
    /\ html.lang = "ar"

====
